---- MODULE Spec2Model ----
(***************************************************************************)
(* Model of the two cost selectors of the Hilton travel calculator:        *)
(* CarRentalSelector (useMemo `costs` + reporting effect) and               *)
(* HotelSelector (calculateCashPrice, calculatePointsSavings + reporting    *)
(* effect).                                                                 *)
(*                                                                          *)
(* Arithmetic.  The source computes with decimal literals (0.0825, 0.115,   *)
(* 0.85, 1.4 ...).  The model computes the same expressions exactly, in     *)
(* integers: a car amount is held in units of 1/CarUnit dollar and a hotel  *)
(* amount in units of 1/HotelUnit dollar.  Rates are held as the integer    *)
(* numerator of the source literal over a power of ten (0.0825 is 825 over  *)
(* 10000) and every multiplication by a rate is reduced to lowest terms     *)
(* before dividing, so that every \div below is an exact division and no    *)
(* intermediate value leaves 32 bits.  Binary floating-point error of the   *)
(* JavaScript doubles is not modelled.                                      *)
(***************************************************************************)
EXTENDS Integers, Sequences, FiniteSets, TLC

VARIABLES
    mounted,        \* which selector component this run renders: "car" | "hotel"
    tz,             \* the browser's UTC offset in hours (local = UTC + tz)
    carDetails,     \* CarRentalSelector prop `details`: [company, category, days]
    carPoints,      \* CarRentalSelector prop `points`
    carReported,    \* the cost of the latest onCostUpdate call of CarRentalSelector
    carDelivered,   \* the onCostUpdate calls made by the latest car event, in order
    hotelDetails,   \* HotelSelector prop `details`
    hotelReported,  \* the cost of the latest onCostUpdate call of HotelSelector
    hotelDelivered  \* the onCostUpdate calls made by the latest hotel event, in order

vars == <<mounted, tz, carDetails, carPoints, carReported, carDelivered,
          hotelDetails, hotelReported, hotelDelivered>>

carVars == <<carDetails, carPoints, carReported, carDelivered>>
hotelVars == <<hotelDetails, hotelReported, hotelDelivered>>

-----------------------------------------------------------------------------
(* Bounds of the model *)

MaxDays == 8
MaxNights == 7
MaxRooms == 2

\* Rental days the number input can deliver: Number(e.target.value), min="0"
\* is not enforced on typed values.
DayValues == -1 .. MaxDays
\* Points balances passed to CarRentalSelector.
CarPointValues == {0, 1, 1000, 5003, 200000}

-----------------------------------------------------------------------------
(* Helpers *)

Min(a, b) == IF a <= b THEN a ELSE b

\* Math.ceil(a / b) for b > 0
CeilDiv(a, b) == -((-a) \div b)

NoCost == [cashPrice |-> 0, pointsSavings |-> 0]

-----------------------------------------------------------------------------
(* Car rental: reference table *)

\* carRentals (../data/travelData): company, basePrice in dollars and the
\* category multipliers, held in tenths (13 is 1.3).
carRentals ==
    << [company |-> "Hertz", basePrice |-> 45,
        categories |-> [economy |-> 10, midsize |-> 13, luxury |-> 20, suv |-> 16]],
       [company |-> "Enterprise", basePrice |-> 38,
        categories |-> [economy |-> 10, midsize |-> 12, luxury |-> 25, suv |-> 17]] >>

CarCompanies == {carRentals[i].company : i \in 1..Len(carRentals)}
\* "" is the select's placeholder; "Acme" is a company the table does not hold.
CompanyValues == {"", "Acme"} \cup CarCompanies
CategoryValues == {"", "economy", "midsize", "luxury", "suv"}

\* carRentals.find(r => r.company === company): the index of the first match,
\* 0 for undefined
FindRental(company) ==
    LET hits == {i \in 1..Len(carRentals) : carRentals[i].company = company}
    IN  IF hits = {} THEN 0
        ELSE CHOOSE i \in hits : \A j \in hits : i <= j

-----------------------------------------------------------------------------
(* Car rental: the pricing engine *)

\* Units per dollar of a car amount.
CarUnit == 160000

\* Math.round(x * 100) / 100: to the nearest cent, a half cent goes up.
CarRound2(x) == ((x + (CarUnit \div 200)) \div (CarUnit \div 100)) * (CarUnit \div 100)

\* rental.categories[details.category] || 1, in tenths
CategoryMultiplier(rental, category) ==
    IF category \in DOMAIN rental.categories /\ rental.categories[category] # 0
    THEN rental.categories[category]
    ELSE 10

\* Variant: the tiers start one day late (> for >=).  C5 must reject it.
CarDiscountStrict(days) ==
    IF days > 7 THEN 15
    ELSE IF days > 3 THEN 10
    ELSE 0

\* Variant: the tiers hold the multiplier (0.85, 0.90) where the code that
\* uses them expects the discount.  C13 must reject it.
CarDiscountAsMultiplier(days) ==
    IF days >= 7 THEN 85
    ELSE IF days >= 3 THEN 90
    ELSE 0

\* let discount = 0; if (days >= 7) 0.15 else if (days >= 3) 0.10, in percent
CarDiscount(days) ==
    IF days >= 7 THEN 15
    ELSE IF days >= 3 THEN 10
    ELSE 0

\* The unrounded cashPrice and pointsSavings of the useMemo body, past both
\* early returns.
CarRaw(rental, category, days, points) ==
    LET categoryMultiplier == CategoryMultiplier(rental, category)
        dailyRate     == rental.basePrice * categoryMultiplier * (CarUnit \div 10)
        baseRental    == dailyRate * days
        insuranceFee  == 15 * days * CarUnit
        airportFee    == 25 * CarUnit
        vehicleLicenseFee == 850 * (CarUnit \div 100)
        facilityFee   == 12 * CarUnit
        totalFees     == insuranceFee + airportFee + vehicleLicenseFee + facilityFee
        discount      == CarDiscount(days)
        \* baseRental * (1 - discount)
        discountedBase == (baseRental \div 100) * (100 - discount)
        subtotal      == discountedBase + totalFees
        \* subtotal * 0.0825 = subtotal * 33 / 400
        salesTax      == (subtotal \div 400) * 33
        \* baseRental * 0.115 = baseRental * 23 / 200
        rentalTax     == (baseRental \div 200) * 23
        totalTaxes    == salesTax + rentalTax
        cashPrice     == subtotal + totalTaxes
        \* Math.min(points * 0.008, cashPrice * 0.5)
        pointsSavings == Min(points * (CarUnit \div 125), cashPrice \div 2)
    IN  [cashPrice |-> cashPrice, pointsSavings |-> pointsSavings,
         baseRate |-> dailyRate, discount |-> discount,
         fees |-> totalFees, taxes |-> totalTaxes]

\* Variant: pointsSavings is taken from the cashPrice already rounded to
\* cents.  The amended C7 must reject it.
costsRoundedFirst(details, points) ==
    IF details.company = "" \/ details.days <= 0 THEN NoCost
    ELSE LET rental == FindRental(details.company)
         IN  IF rental = 0 THEN NoCost
             ELSE LET raw == CarRaw(carRentals[rental], details.category,
                                    details.days, points)
                      cashPrice == CarRound2(raw.cashPrice)
                  IN  [cashPrice |-> cashPrice,
                       pointsSavings |->
                           CarRound2(Min(points * (CarUnit \div 125), cashPrice \div 2))]

\* const costs = useMemo(() => {...}, [details, points])
costs(details, points) ==
    IF details.company = "" \/ details.days <= 0 THEN NoCost
    ELSE LET rental == FindRental(details.company)
         IN  IF rental = 0 THEN NoCost
             ELSE LET raw == CarRaw(carRentals[rental], details.category,
                                    details.days, points)
                  IN  [cashPrice |-> CarRound2(raw.cashPrice),
                       pointsSavings |-> CarRound2(raw.pointsSavings)]

\* The render guard of the cost breakdown panel.
CarPanelShown(details) ==
    details.company # "" /\ details.category # "" /\ details.days > 0

-----------------------------------------------------------------------------
(* Hotel: constants and reference table *)

\* Units per dollar of a hotel amount.
HotelUnit == 100000

\* HOTEL_FEES, in dollars
HOTEL_FEES ==
    [resortFee |-> 35, parkingFee |-> 25, serviceFee |-> 10,
     amenityFee |-> 15, destinationFee |-> 20]

\* TAX_RATES, in thousandths (145 is 0.145)
TAX_RATES ==
    [roomTax |-> 145, occupancyTax |-> 35, cityTax |-> 20, tourismLevy |-> 10]

\* SEASONAL_RATES, in tenths (14 is 1.4)
SEASONAL_RATES == [peak |-> 14, shoulder |-> 12, offPeak |-> 8]

MajorCities == {"New York", "Los Angeles", "Chicago", "Miami", "Las Vegas"}

\* expandedHiltonProperties (../data/hiltonProperties): the fields the selector
\* reads; basePrice in dollars.
expandedHiltonProperties ==
    << [id |-> "NYCHH", brandId |-> "hi", city |-> "New York",
        amenities |-> <<"WiFi", "Pool">>, basePrice |-> 120],
       [id |-> "AUSGI", brandId |-> "gi", city |-> "Austin",
        amenities |-> <<"WiFi", "Restaurant">>, basePrice |-> 89],
       [id |-> "ORLWA", brandId |-> "wa", city |-> "Orlando",
        amenities |-> <<"Spa Services", "WiFi">>, basePrice |-> 149] >>

PropertyIds == {expandedHiltonProperties[i].id : i \in 1..Len(expandedHiltonProperties)}
\* "" is the select's placeholder; "ZZZZZ" is an id the table does not hold.
PropertyValues == {"", "ZZZZZ"} \cup PropertyIds
BrandValues == {"", "hi"}
RoomValues == -1 .. MaxRooms

\* array.includes(x)
Includes(seq, x) == \E i \in 1..Len(seq) : seq[i] = x

\* const filteredProperties = details.brand ? filter(p => p.brandId === details.brand)
\*                                          : expandedHiltonProperties
\* as the positions of the table it keeps.
filteredProperties(details) ==
    IF details.brand = "" THEN {i \in 1..Len(expandedHiltonProperties) : TRUE}
    ELSE {i \in 1..Len(expandedHiltonProperties) :
             expandedHiltonProperties[i].brandId = details.brand}

\* Variant: the property is looked up in the brand-filtered list.  C15 must
\* reject it.
selectedPropertyFiltered(details) ==
    IF details.property = "" THEN [kind |-> "null", index |-> 0]
    ELSE LET hits == {i \in filteredProperties(details) :
                         expandedHiltonProperties[i].id = details.property}
         IN  IF hits = {} THEN [kind |-> "undefined", index |-> 0]
             ELSE [kind |-> "object",
                   index |-> CHOOSE i \in hits : \A j \in hits : i <= j]

\* const selectedProperty = details.property ? find(p => p.id === details.property) : null
\* index is the position of the first match in the table; kind tells null (no
\* id entered) from undefined (find found nothing).
selectedProperty(details) ==
    IF details.property = "" THEN [kind |-> "null", index |-> 0]
    ELSE LET hits == {i \in 1..Len(expandedHiltonProperties) :
                         expandedHiltonProperties[i].id = details.property}
         IN  IF hits = {} THEN [kind |-> "undefined", index |-> 0]
             ELSE [kind |-> "object",
                   index |-> CHOOSE i \in hits : \A j \in hits : i <= j]

-----------------------------------------------------------------------------
(* Hotel: dates.  A date input's value is "" or "YYYY-MM-DD"; the model     *)
(* holds it as [month, day] of the non-leap year 2025, month 0 for "".      *)

NoDate == [month |-> 0, day |-> 0]

DaysInMonth == <<31, 28, 31, 30, 31, 30, 31, 31, 30, 31, 30, 31>>

\* days of the year before the first of month m (1..12)
DaysBefore(m) == <<0, 31, 59, 90, 120, 151, 181, 212, 243, 273, 304, 334>>[m]

\* new Date("YYYY-MM-DD").getTime(): a date-only string is UTC midnight.
\* In hours since 2025-01-01T00:00Z (the source's milliseconds / 3600000).
GetTime(date) == (DaysBefore(date.month) + date.day - 1) * 24

\* new Date("YYYY-MM-DD").getMonth(): the 0-indexed month of the LOCAL
\* calendar day on which that UTC midnight falls.
GetMonth(date) ==
    LET localHours == GetTime(date) + tz
        \* floor; day -1 is 31 December of the year before
        localDay == (localHours \div 24) % 365
    IN  (CHOOSE m \in 1..12 :
            DaysBefore(m) <= localDay /\ localDay < DaysBefore(m) + DaysInMonth[m]) - 1

\* Math.ceil((getTime(checkOut) - getTime(checkIn)) / (1000*60*60*24))
Nights(checkIn, checkOut) == CeilDiv(GetTime(checkOut) - GetTime(checkIn), 24)

-----------------------------------------------------------------------------
(* Hotel: the pricing engine *)

\* seasonalRate of calculateCashPrice, in tenths
SeasonalRate(month) ==
    IF month >= 5 /\ month <= 7 THEN SEASONAL_RATES.peak
    ELSE IF month >= 2 /\ month <= 4 THEN SEASONAL_RATES.shoulder
    ELSE IF month >= 11 \/ month <= 1 THEN SEASONAL_RATES.offPeak
    ELSE 10

\* Variant: the tiers start one night late (> for >=).  C8 must reject it.
LengthDiscountStrict(nights) ==
    IF nights > 7 THEN 85
    ELSE IF nights > 4 THEN 90
    ELSE IF nights > 2 THEN 95
    ELSE 100

\* lengthDiscount of calculateCashPrice, in hundredths
LengthDiscount(nights) ==
    IF nights >= 7 THEN 85
    ELSE IF nights >= 4 THEN 90
    ELSE IF nights >= 2 THEN 95
    ELSE 100

\* Variant: the four taxes are levied on roomCost + fees.  C6 must reject it.
calculateCashPriceTaxedFees(sel, basePrice, checkIn, checkOut, rooms) ==
    IF checkIn = NoDate \/ checkOut = NoDate THEN 0
    ELSE LET nights == Nights(checkIn, checkOut) IN
    IF nights <= 0 THEN 0
    ELSE LET
        roomCost == basePrice * SeasonalRate(GetMonth(checkIn)) * LengthDiscount(nights)
                        * nights * rooms * (HotelUnit \div 1000)
        prop == expandedHiltonProperties[sel.index]
        isMajorCity == sel.kind = "object" /\ prop.city # "" /\ prop.city \in MajorCities
        hasResortFee == sel.kind = "object" /\
                        (Includes(prop.amenities, "Pool") \/
                         Includes(prop.amenities, "Spa Services"))
        fees == ((IF hasResortFee THEN HOTEL_FEES.resortFee ELSE 0) +
                 HOTEL_FEES.serviceFee +
                 HOTEL_FEES.amenityFee +
                 (IF isMajorCity THEN HOTEL_FEES.destinationFee ELSE 0))
                * nights * rooms * HotelUnit
        taxed == roomCost + fees
        rate == TAX_RATES.roomTax + TAX_RATES.occupancyTax + TAX_RATES.tourismLevy
                    + (IF isMajorCity THEN TAX_RATES.cityTax ELSE 0)
    IN  taxed + (taxed \div 1000) * rate

\* calculateCashPrice(basePrice, checkIn, checkOut, rooms); sel is the
\* selectedProperty the closure reads.
calculateCashPrice(sel, basePrice, checkIn, checkOut, rooms) ==
    IF checkIn = NoDate \/ checkOut = NoDate THEN 0
    ELSE LET nights == Nights(checkIn, checkOut) IN
    IF nights <= 0 THEN 0
    ELSE LET
        month == GetMonth(checkIn)
        seasonalRate == SeasonalRate(month)
        lengthDiscount == LengthDiscount(nights)
        roomCost == basePrice * seasonalRate * lengthDiscount * nights * rooms
                        * (HotelUnit \div 1000)
        prop == expandedHiltonProperties[sel.index]
        isMajorCity == sel.kind = "object" /\ prop.city # "" /\ prop.city \in MajorCities
        hasResortFee == sel.kind = "object" /\
                        (Includes(prop.amenities, "Pool") \/
                         Includes(prop.amenities, "Spa Services"))
        fees == ((IF hasResortFee THEN HOTEL_FEES.resortFee ELSE 0) +
                 HOTEL_FEES.serviceFee +
                 HOTEL_FEES.amenityFee +
                 (IF isMajorCity THEN HOTEL_FEES.destinationFee ELSE 0))
                * nights * rooms * HotelUnit
        roomTax == (roomCost \div 1000) * TAX_RATES.roomTax
        occupancyTax == (roomCost \div 1000) * TAX_RATES.occupancyTax
        cityTax == IF isMajorCity THEN (roomCost \div 1000) * TAX_RATES.cityTax ELSE 0
        tourismLevy == (roomCost \div 1000) * TAX_RATES.tourismLevy
    IN  roomCost + fees + roomTax + occupancyTax + cityTax + tourismLevy

Digits == <<"0", "1", "2", "3", "4", "5", "6", "7", "8", "9">>
IsDigit(c) == \E d \in 1..10 : Digits[d] = c
DigitValue(c) == (CHOOSE d \in 1..10 : Digits[d] = c) - 1

RECURSIVE DigitsValue(_)
\* the value of a string of decimal digits
DigitsValue(s) ==
    IF s = <<>> THEN 0
    ELSE DigitsValue(SubSeq(s, 1, Len(s) - 1)) * 10 + DigitValue(s[Len(s)])

\* Number(points) for a string of characters: "" is 0, an optionally signed
\* run of digits is its value, anything else is NaN.
ToNumber(s) ==
    LET body == IF s # <<>> /\ s[1] \in {"-", "+"} THEN Tail(s) ELSE s
    IN  IF s = <<>> THEN [nan |-> FALSE, value |-> 0]
        ELSE IF body = <<>> \/ \E i \in 1..Len(body) : ~IsDigit(body[i])
             THEN [nan |-> TRUE, value |-> 0]
        ELSE [nan |-> FALSE,
              value |-> IF s[1] = "-" THEN -DigitsValue(body) ELSE DigitsValue(body)]

\* const pointsNum = Number(points) || 0
PointsNum(points) ==
    LET n == ToNumber(points) IN IF n.nan \/ n.value = 0 THEN 0 ELSE n.value

\* Variant: the 80% cap is left out.  C2 must reject it.
calculatePointsSavingsNoCap(points, cashPrice) ==
    PointsNum(points) * (HotelUnit \div 200)

\* calculatePointsSavings(points, cashPrice) =
\* Math.min(pointsNum * 0.005, cashPrice * 0.8)
calculatePointsSavings(points, cashPrice) ==
    Min(PointsNum(points) * (HotelUnit \div 200), (cashPrice \div 5) * 4)

\* The cost the reporting effect of HotelSelector hands to onCostUpdate.
HotelCost(details) ==
    LET sel == selectedProperty(details) IN
    IF sel.kind = "object"
    THEN LET cashPrice == calculateCashPrice(sel,
                              expandedHiltonProperties[sel.index].basePrice,
                              details.checkIn, details.checkOut, details.rooms)
         IN  [cashPrice |-> cashPrice,
              pointsSavings |-> calculatePointsSavings(details.points, cashPrice)]
    ELSE NoCost

\* The render guard of the hotel panel: {selectedProperty && (...)}
HotelPanelShown(details) == selectedProperty(details).kind = "object"

-----------------------------------------------------------------------------
(* Hotel: the rate details the panel computes for display *)

\* The seasonal adjustment line: month is -1 without a check-in date, the
\* same three tests pick the rate (in tenths) and the line is rendered when
\* month !== -1.
DisplaySeason(details) ==
    LET month == IF details.checkIn # NoDate THEN GetMonth(details.checkIn) ELSE -1
        seasonalRate ==
            IF month >= 5 /\ month <= 7 THEN SEASONAL_RATES.peak
            ELSE IF month >= 2 /\ month <= 4 THEN SEASONAL_RATES.shoulder
            ELSE IF month >= 11 \/ month <= 1 THEN SEASONAL_RATES.offPeak
            ELSE 10
    IN  [shown |-> month # -1, seasonalRate |-> seasonalRate]

\* Variant: the 5% line starts at 3 nights.  C14 must reject it.
DisplayDiscountLate(details) ==
    IF details.checkIn = NoDate \/ details.checkOut = NoDate
    THEN [shown |-> FALSE, discount |-> 0]
    ELSE LET nights == Nights(details.checkIn, details.checkOut)
             discount == IF nights >= 7 THEN 15
                         ELSE IF nights >= 4 THEN 10
                         ELSE IF nights >= 3 THEN 5
                         ELSE 0
         IN  [shown |-> discount > 0, discount |-> discount]

\* The nights discount line: null without both dates; discount (in percent)
\* 0.15 from 7 nights, 0.10 from 4, 0.05 from 2; rendered when discount > 0.
DisplayDiscount(details) ==
    IF details.checkIn = NoDate \/ details.checkOut = NoDate
    THEN [shown |-> FALSE, discount |-> 0]
    ELSE LET nights == Nights(details.checkIn, details.checkOut)
             discount == IF nights >= 7 THEN 15
                         ELSE IF nights >= 4 THEN 10
                         ELSE IF nights >= 2 THEN 5
                         ELSE 0
         IN  [shown |-> discount > 0, discount |-> discount]

-----------------------------------------------------------------------------
(* The values the form controls and the parent can deliver *)

\* UTC offsets of the browser, in hours: New York (winter), UTC, Tokyo.
TzValues == {-5, 0, 9}

CheckInValues ==
    {[month |-> m, day |-> 1] : m \in 1..12} \cup {[month |-> 6, day |-> 2]}
\* Check-out the day after the first of every month, and every day of the
\* first MaxNights + 1 of June.
CheckOutValues ==
    {[month |-> m, day |-> 2] : m \in 1..12} \cup
    {[month |-> 6, day |-> d] : d \in 1..(MaxNights + 1)}

\* The points input's value is a string; a string is held as its characters.
HotelPointValues ==
    { <<>>, <<"a", "b", "c">>, <<"-", "1", "0", "0", "0">>,
      <<"1", "0", "0", "0">>, <<"2", "5", "0", "0", "0", "0">> }

\* The model keeps a stay within MaxNights nights either way.
StayInBounds(checkIn, checkOut) ==
    IF checkIn = NoDate \/ checkOut = NoDate THEN TRUE
    ELSE Nights(checkIn, checkOut) <= MaxNights /\ Nights(checkIn, checkOut) >= -MaxNights

-----------------------------------------------------------------------------
(* Reactive recomputation *)

\* The dependency list of the car useMemo: [details, points].  The parent
\* stores a field by building a new details object, so the list changes
\* exactly when a value in it changes.
CarMemoDeps(details, points) == <<details, points>>

\* A render of CarRentalSelector with new props, and its effects.  The memo
\* recomputes when its dependencies changed; a recomputation yields a new
\* costs object, which is what the effect [costs, onCostUpdate] watches.
CarRender(details, points) ==
    /\ carDetails' = details
    /\ carPoints' = points
    /\ IF CarMemoDeps(details, points) # CarMemoDeps(carDetails, carPoints)
       THEN /\ carReported' = costs(details, points)
            /\ carDelivered' = <<carReported'>>
       ELSE /\ carDelivered' = <<>>
            /\ UNCHANGED carReported
    /\ UNCHANGED <<mounted, tz, hotelVars>>

\* Variant: details.points is missing from the dependency list.  C10 must
\* reject it.
HotelEffectDepsNoPoints(details) ==
    <<selectedProperty(details), details.checkIn, details.checkOut, details.rooms>>

\* The dependency list of the hotel effect:
\* [selectedProperty, details.checkIn, details.checkOut, details.rooms, details.points]
HotelEffectDeps(details) ==
    <<selectedProperty(details), details.checkIn, details.checkOut,
      details.rooms, details.points>>

\* A render of HotelSelector with new props, and its effect.
HotelRender(details) ==
    /\ hotelDetails' = details
    /\ IF HotelEffectDeps(details) # HotelEffectDeps(hotelDetails)
       THEN /\ hotelReported' = HotelCost(details)
            /\ hotelDelivered' = <<hotelReported'>>
       ELSE /\ hotelDelivered' = <<>>
            /\ UNCHANGED hotelReported
    /\ UNCHANGED <<mounted, tz, carVars>>

-----------------------------------------------------------------------------
(* Initial state: the component is mounted with the parent's initial props  *)
(* and its effect has run once.                                             *)

CarInitDetails == [company : {"", "Acme"}, category : {""}, days : {0, 1}]
HotelInitDetails ==
    [brand : {""}, property : {"", "ZZZZZ"}, checkIn : {NoDate},
     checkOut : {NoDate}, rooms : {1}, points : {<<>>}]

Init ==
    /\ mounted \in {"car", "hotel"}
    /\ tz \in TzValues
    /\ carPoints = 0
    /\ carDetails \in CarInitDetails
    /\ hotelDetails \in HotelInitDetails
    /\ IF mounted = "car"
       THEN /\ hotelDetails = [brand |-> "", property |-> "", checkIn |-> NoDate,
                               checkOut |-> NoDate, rooms |-> 1, points |-> <<>>]
            /\ carReported = costs(carDetails, carPoints)
            /\ carDelivered = <<costs(carDetails, carPoints)>>
            /\ hotelReported = NoCost
            /\ hotelDelivered = <<>>
       ELSE /\ carDetails = [company |-> "", category |-> "", days |-> 0]
            /\ hotelReported = HotelCost(hotelDetails)
            /\ hotelDelivered = <<HotelCost(hotelDetails)>>
            /\ carReported = NoCost
            /\ carDelivered = <<>>

-----------------------------------------------------------------------------
(* Car rental: the form's change handlers *)

\* <select value={details.company} onChange=...onUpdate('company', value)>
CarUpdateCompany ==
    /\ mounted = "car"
    /\ \E v \in {""} \cup CarCompanies :
          /\ v # carDetails.company
          /\ CarRender([carDetails EXCEPT !.company = v], carPoints)

\* <select value={details.category} onChange=...onUpdate('category', value)>
CarUpdateCategory ==
    /\ mounted = "car"
    /\ \E v \in CategoryValues :
          /\ v # carDetails.category
          /\ CarRender([carDetails EXCEPT !.category = v], carPoints)

\* <input type="number" onChange=...onUpdate('days', Number(value))>
CarUpdateDays ==
    /\ mounted = "car"
    /\ \E v \in DayValues :
          /\ v # carDetails.days
          /\ CarRender([carDetails EXCEPT !.days = v], carPoints)

\* The parent passes a new points balance.
CarUpdatePoints ==
    /\ mounted = "car"
    /\ \E p \in CarPointValues :
          /\ p # carPoints
          /\ CarRender(carDetails, p)

-----------------------------------------------------------------------------
(* Hotel: the form's change handlers *)

\* onUpdate('brand', value)
HotelUpdateBrand ==
    /\ mounted = "hotel"
    /\ \E v \in BrandValues :
          /\ v # hotelDetails.brand
          /\ HotelRender([hotelDetails EXCEPT !.brand = v])

\* onUpdate('property', value)
HotelUpdateProperty ==
    /\ mounted = "hotel"
    /\ \E v \in {""} \cup PropertyIds :
          /\ v # hotelDetails.property
          /\ HotelRender([hotelDetails EXCEPT !.property = v])

\* onUpdate('checkIn', value)
HotelUpdateCheckIn ==
    /\ mounted = "hotel"
    /\ \E v \in {NoDate} \cup CheckInValues :
          /\ v # hotelDetails.checkIn
          /\ StayInBounds(v, hotelDetails.checkOut)
          /\ HotelRender([hotelDetails EXCEPT !.checkIn = v])

\* onUpdate('checkOut', value)
HotelUpdateCheckOut ==
    /\ mounted = "hotel"
    /\ \E v \in {NoDate} \cup CheckOutValues :
          /\ v # hotelDetails.checkOut
          /\ StayInBounds(hotelDetails.checkIn, v)
          /\ HotelRender([hotelDetails EXCEPT !.checkOut = v])

\* onUpdate('rooms', Number(value))
HotelUpdateRooms ==
    /\ mounted = "hotel"
    /\ \E v \in RoomValues :
          /\ v # hotelDetails.rooms
          /\ HotelRender([hotelDetails EXCEPT !.rooms = v])

\* onUpdate('points', value)
HotelUpdatePoints ==
    /\ mounted = "hotel"
    /\ \E v \in HotelPointValues :
          /\ v # hotelDetails.points
          /\ HotelRender([hotelDetails EXCEPT !.points = v])

Next ==
    \/ CarUpdateCompany
    \/ CarUpdateCategory
    \/ CarUpdateDays
    \/ CarUpdatePoints
    \/ HotelUpdateBrand
    \/ HotelUpdateProperty
    \/ HotelUpdateCheckIn
    \/ HotelUpdateCheckOut
    \/ HotelUpdateRooms
    \/ HotelUpdatePoints

Spec == Init /\ [][Next]_vars

-----------------------------------------------------------------------------
(* What the claims speak of *)

\* The car input is valid: a known company and days > 0.
CarValid ==
    /\ mounted = "car"
    /\ carDetails.company \in CarCompanies
    /\ carDetails.days > 0

\* The hotel input is valid: a property of the table, both dates, nights > 0.
\* The number of nights is the calendar difference of the two dates.
CalendarNights == 
    (DaysBefore(hotelDetails.checkOut.month) + hotelDetails.checkOut.day)
        - (DaysBefore(hotelDetails.checkIn.month) + hotelDetails.checkIn.day)

HotelValid ==
    /\ mounted = "hotel"
    /\ hotelDetails.property \in PropertyIds
    /\ hotelDetails.checkIn # NoDate
    /\ hotelDetails.checkOut # NoDate
    /\ CalendarNights > 0

\* points * 0.008, as a car amount
CarPointsValue == carPoints * (CarUnit \div 125)

\* The points string as a number, empty and non-numeric being 0, read off
\* the strings the model enters.
NumericPoints ==
    CASE hotelDetails.points = <<>> -> 0
      [] hotelDetails.points = <<"a", "b", "c">> -> 0
      [] hotelDetails.points = <<"-", "1", "0", "0", "0">> -> -1000
      [] hotelDetails.points = <<"1", "0", "0", "0">> -> 1000
      [] hotelDetails.points = <<"2", "5", "0", "0", "0", "0">> -> 250000

\* C1: for a known company and days > 0 the reported car result has
\* pointsSavings <= cashPrice * 0.5 and pointsSavings <= points * 0.008.
C1_CarSavingsWithinCaps ==
    CarValid =>
        /\ carReported.pointsSavings * 2 <= carReported.cashPrice
        /\ carReported.pointsSavings <= CarPointsValue

\* C2: for a selected property, both dates and nights > 0 the reported hotel
\* result has pointsSavings <= cashPrice * 0.8 and
\* pointsSavings <= numericPoints * 0.005.
C2_HotelSavingsWithinCaps ==
    HotelValid =>
        /\ hotelReported.pointsSavings <= (hotelReported.cashPrice \div 5) * 4
        /\ hotelReported.pointsSavings <= NumericPoints * (HotelUnit \div 200)

\* C2's case: a valid stay paid with a large balance, the 80% cap binding.
C2_Witness ==
    /\ HotelValid
    /\ hotelDetails.rooms > 0
    /\ NumericPoints = 250000
    /\ hotelReported.pointsSavings > 0
    /\ hotelReported.pointsSavings < NumericPoints * (HotelUnit \div 200)

\* C3: a non-positive quantity, a missing date or a missing or unknown
\* selection reports cashPrice = 0 and pointsSavings = 0, whatever the points.
C3_InvalidInputReportsZero ==
    /\ (mounted = "car" /\ ~CarValid) => carReported = NoCost
    /\ (mounted = "hotel" /\ ~HotelValid) => hotelReported = NoCost

\* C4: the reported cashPrice is never negative.
C4_CashPriceNonNegative ==
    /\ carReported.cashPrice >= 0
    /\ hotelReported.cashPrice >= 0

-----------------------------------------------------------------------------
(* The car formula of the claims, written out in units of 1/80000 dollar    *)
(* (half a car unit), in which every term below is a whole number.          *)

\* The category multiplier in tenths: 1 when the category is empty or unknown.
ExpMultiplier ==
    LET rental == carRentals[FindRental(carDetails.company)]
    IN  IF carDetails.category \in {"economy", "midsize", "luxury", "suv"}
        THEN rental.categories[carDetails.category]
        ELSE 10

\* B = basePrice * categoryMultiplier * days, in tenths of a dollar
ExpB == carRentals[FindRental(carDetails.company)].basePrice * ExpMultiplier * carDetails.days

\* 1 - discount, in twentieths: 0.85 from 7 days, 0.90 from 3 to 6, else 1
ExpKeep ==
    IF carDetails.days >= 7 THEN 17
    ELSE IF carDetails.days >= 3 /\ carDetails.days < 7 THEN 18
    ELSE 20

\* D = B * (1 - discount)
ExpD == ExpB * ExpKeep * 400
\* F = 15 * days + 25 + 8.50 + 12
ExpF == (15 * carDetails.days + 25 + 12) * 80000 + 85 * 8000
\* 0.0825 * (D + F)
ExpSalesTax == ((ExpD + ExpF) \div 400) * 33
\* 0.115 * B
ExpRentalTax == ExpB * 920

\* D + F + 0.0825 * (D + F) + 0.115 * B, unrounded
ExpCarCash == ExpD + ExpF + ExpSalesTax + ExpRentalTax

\* round2 of an amount in 1/80000 dollar, as a car amount
ExpRound2(x) == ((x + 400) \div 800) * (CarUnit \div 100)

\* C5: for a known company and days > 0 the car cashPrice is
\* round2(D + F + 0.0825 * (D + F) + 0.115 * B): the discount on the base
\* rental only, sales tax on the discounted subtotal, rental tax on the
\* undiscounted base rental.
C5_CarCashPriceFormula ==
    CarValid => carReported.cashPrice = ExpRound2(ExpCarCash)

\* C5's case: a weekly rental of a category with a multiplier above 1.
C5_Witness ==
    /\ CarValid
    /\ carDetails.days >= 7
    /\ carDetails.category = "luxury"
    /\ carReported.cashPrice = ExpRound2(ExpCarCash)

\* C7 as claimed: pointsSavings is computed from the rounded cashPrice,
\* pointsSavings = round2(min(points * 0.008, C * 0.5)) with C the returned
\* cashPrice.
C7_SavingsFromRoundedCash ==
    CarValid =>
        carReported.pointsSavings =
            CarRound2(Min(CarPointsValue, carReported.cashPrice \div 2))

\* C7 amended: pointsSavings is computed from the unrounded cashPrice c,
\* pointsSavings = round2(min(points * 0.008, c * 0.5)); cashPrice is
\* rounded only in the returned object.
C7_SavingsFromUnroundedCash ==
    CarValid =>
        carReported.pointsSavings = CarRound2(Min(CarPointsValue, ExpCarCash))

\* C7's case: the cap on the unrounded and on the rounded price round to
\* different cents, and the reported savings is the cap.
C7_Witness ==
    /\ CarValid
    /\ CarPointsValue > ExpCarCash
    /\ CarRound2(ExpCarCash) # CarRound2(carReported.cashPrice \div 2)
    /\ carReported.pointsSavings = CarRound2(ExpCarCash)

-----------------------------------------------------------------------------
(* The hotel formula of the claims *)

ExpProperty ==
    expandedHiltonProperties[
        CHOOSE i \in 1..Len(expandedHiltonProperties) :
            expandedHiltonProperties[i].id = hotelDetails.property]

ExpAmenities == {ExpProperty.amenities[i] : i \in 1..Len(ExpProperty.amenities)}
ExpResort == ExpAmenities \cap {"Pool", "Spa Services"} # {}
ExpMajorCity ==
    ExpProperty.city \in {"New York", "Los Angeles", "Chicago", "Miami", "Las Vegas"}

\* The seasonal multiplier the engine applied, in tenths.
UsedSeasonalRate == SeasonalRate(GetMonth(hotelDetails.checkIn))
\* The length multiplier the engine applied, in hundredths.
UsedLengthDiscount == LengthDiscount(Nights(hotelDetails.checkIn, hotelDetails.checkOut))

\* roomCost + fees + taxes as a hotel amount, for a seasonal multiplier in
\* tenths and a length multiplier in hundredths:
\*   roomCost = basePrice * seasonal * length * nights * rooms
\*   fees     = (10 + 15 + 35 if resort + 20 if major city) * nights * rooms
\*   taxes    = roomCost * (0.145 + 0.035 + 0.01 + 0.02 if major city)
ExpHotelCash(seasonal, length) ==
    LET \* in thousandths of a dollar
        roomCost == ExpProperty.basePrice * seasonal * length
                        * CalendarNights * hotelDetails.rooms
        feePerNight == 10 + 15 + (IF ExpResort THEN 35 ELSE 0)
                               + (IF ExpMajorCity THEN 20 ELSE 0)
        \* in thousandths
        taxRate == 145 + 35 + 10 + (IF ExpMajorCity THEN 20 ELSE 0)
    IN  roomCost * (HotelUnit \div 1000)
          + feePerNight * CalendarNights * hotelDetails.rooms * HotelUnit
          + (roomCost * taxRate) \div (1000000 \div HotelUnit)

\* C6: for a selected property and nights > 0, cashPrice is
\* roomCost + fees + taxes, unrounded; taxes are levied on roomCost only and
\* the parking fee is no part of it.
C6_HotelCashPriceFormula ==
    HotelValid =>
        hotelReported.cashPrice = ExpHotelCash(UsedSeasonalRate, UsedLengthDiscount)

\* C6's case: two rooms at a property with a resort fee outside the major
\* cities, whose price is no whole number of cents.
C6_Witness ==
    /\ HotelValid
    /\ hotelDetails.rooms = 2
    /\ ExpResort /\ ~ExpMajorCity
    /\ hotelReported.cashPrice % (HotelUnit \div 100) # 0
    /\ hotelReported.cashPrice = ExpHotelCash(UsedSeasonalRate, UsedLengthDiscount)

\* The length multiplier of the claim, in hundredths.
ExpLengthMultiplier ==
    IF CalendarNights = 1 THEN 100
    ELSE IF CalendarNights >= 2 /\ CalendarNights <= 3 THEN 95
    ELSE IF CalendarNights >= 4 /\ CalendarNights <= 6 THEN 90
    ELSE 85

\* C8: the length multiplier is 1.0 for 1 night, 0.95 for 2-3, 0.90 for 4-6
\* and 0.85 from 7 nights, nights being the day difference of the dates.
C8_LengthTiers ==
    HotelValid =>
        /\ Nights(hotelDetails.checkIn, hotelDetails.checkOut) = CalendarNights
        /\ UsedLengthDiscount = ExpLengthMultiplier
        /\ hotelReported.cashPrice = ExpHotelCash(UsedSeasonalRate, ExpLengthMultiplier)

\* C8's case: a stay of exactly 7 nights, priced at the 0.85 tier.
C8_Witness ==
    /\ HotelValid
    /\ hotelDetails.rooms > 0
    /\ CalendarNights = 7
    /\ UsedLengthDiscount = 85
    /\ hotelReported.cashPrice = ExpHotelCash(UsedSeasonalRate, 85)

\* The seasonal multiplier of the claim, in tenths, by the 0-indexed month of
\* the check-in date as entered.
ExpSeasonalMultiplier ==
    LET month == hotelDetails.checkIn.month - 1
    IN  IF month \in {5, 6, 7} THEN 14
        ELSE IF month \in {2, 3, 4} THEN 12
        ELSE IF month \in {11, 0, 1} THEN 8
        ELSE 10

\* C9: the seasonal multiplier is 1.4 / 1.2 / 0.8 / 1.0 by the month of the
\* check-in date the user entered.
C9_SeasonByEnteredMonth ==
    HotelValid =>
        /\ UsedSeasonalRate = ExpSeasonalMultiplier
        /\ hotelReported.cashPrice = ExpHotelCash(ExpSeasonalMultiplier, UsedLengthDiscount)

-----------------------------------------------------------------------------
(* Reporting *)

CarTracked == <<carDetails, carPoints>>
HotelTracked ==
    <<hotelDetails.property, hotelDetails.checkIn, hotelDetails.checkOut,
      hotelDetails.rooms, hotelDetails.points>>

\* One step: a change of a tracked input makes exactly one onCostUpdate
\* call, carrying the price of the inputs as they are after the change.
C10_Step ==
    /\ CarTracked' # CarTracked =>
          /\ carDelivered' = <<costs(carDetails', carPoints')>>
          /\ carReported' = costs(carDetails', carPoints')
    /\ HotelTracked' # HotelTracked =>
          /\ hotelDelivered' = <<HotelCost(hotelDetails')>>
          /\ hotelReported' = HotelCost(hotelDetails')

\* The latest reported cost is the price of the current inputs.
C10_Fresh ==
    /\ mounted = "car" => carReported = costs(carDetails, carPoints)
    /\ mounted = "hotel" => hotelReported = HotelCost(hotelDetails)

\* C10: every change of a tracked input causes exactly one onCostUpdate call
\* with the price of the inputs after the change, and the latest reported
\* cost is never stale.
C10_OneFreshReportPerChange == [][C10_Step]_vars /\ []C10_Fresh

\* C10's case: a points change on a priced stay has just been reported.
C10_Witness ==
    /\ HotelValid
    /\ hotelDetails.rooms > 0
    /\ NumericPoints = 1000
    /\ hotelDelivered = <<hotelReported>>
    /\ hotelReported.pointsSavings = 1000 * (HotelUnit \div 200)

-----------------------------------------------------------------------------
(* The cost breakdown panels *)

\* The car input is incomplete or invalid: no company, no category or
\* days <= 0.
CarIncomplete ==
    carDetails.company = "" \/ carDetails.category = "" \/ carDetails.days <= 0

\* The hotel input is incomplete or invalid: no property, a missing date or
\* nights <= 0.
HotelIncomplete ==
    \/ hotelDetails.property = ""
    \/ hotelDetails.checkIn = NoDate
    \/ hotelDetails.checkOut = NoDate
    \/ CalendarNights <= 0

\* The panel is not rendered on incomplete or invalid input.
C12_HiddenWhenIncomplete ==
    /\ (mounted = "car" /\ CarIncomplete) => ~CarPanelShown(carDetails)
    /\ (mounted = "hotel" /\ HotelIncomplete) => ~HotelPanelShown(hotelDetails)

\* A hidden panel goes with the zero result.
C12_HiddenMeansZero ==
    /\ (mounted = "car" /\ ~CarPanelShown(carDetails)) => carReported = NoCost
    /\ (mounted = "hotel" /\ ~HotelPanelShown(hotelDetails)) => hotelReported = NoCost

\* C12: in both selectors the breakdown panel is not rendered while the
\* input is incomplete or invalid, and whenever the panel is hidden the
\* reported cost is the zero result.
C12_PanelOnlyWhenValid == C12_HiddenWhenIncomplete /\ C12_HiddenMeansZero

-----------------------------------------------------------------------------
(* Longer bookings *)

\* A step that adds one day to a priced rental, company and category fixed.
CarOneMoreDay ==
    /\ CarValid
    /\ carDetails' = [carDetails EXCEPT !.days = carDetails.days + 1]

\* A step that adds one night to a priced stay of at least one room by
\* moving the check-out date; property, check-in and rooms fixed.
HotelOneMoreNight ==
    /\ HotelValid
    /\ hotelDetails.rooms >= 1
    /\ hotelDetails'.checkOut # NoDate
    /\ hotelDetails' = [hotelDetails EXCEPT !.checkOut = hotelDetails'.checkOut]
    /\ Nights(hotelDetails.checkIn, hotelDetails'.checkOut)
           = Nights(hotelDetails.checkIn, hotelDetails.checkOut) + 1

C13_Step ==
    /\ CarOneMoreDay => carReported'.cashPrice > carReported.cashPrice
    /\ HotelOneMoreNight => hotelReported'.cashPrice > hotelReported.cashPrice

\* C13: one more day of rental, or one more night of stay, always costs
\* more, also across the discount tiers (days 2->3 and 6->7; nights 1->2,
\* 3->4 and 6->7).
C13_LongerCostsMore == [][C13_Step]_vars

\* C13's case: a rental just extended from 6 to 7 days, into the 15% tier,
\* reported at the weekly price.
C13_Witness ==
    /\ CarValid
    /\ carDetails.days = 7
    /\ carDelivered = <<carReported>>
    /\ carReported.cashPrice = ExpRound2(ExpCarCash)
    /\ ExpKeep = 17

-----------------------------------------------------------------------------
(* The panel's rate details against the engine *)

\* C14: for every priced stay the discount d the panel displays satisfies
\* lengthMultiplier = 1 - d and is shown only when d > 0, the seasonal rate
\* the panel selects is the one calculateCashPrice applied, and the reported
\* price is the price at the displayed rates.
C14_DisplayAgreesWithEngine ==
    HotelValid =>
        LET season == DisplaySeason(hotelDetails)
            length == DisplayDiscount(hotelDetails)
        IN  /\ length.discount \in {0, 5, 10, 15}
            /\ length.shown <=> length.discount > 0
            /\ UsedLengthDiscount = 100 - length.discount
            /\ season.shown
            /\ season.seasonalRate = UsedSeasonalRate
            /\ hotelReported.cashPrice =
                   ExpHotelCash(season.seasonalRate, 100 - length.discount)

\* C14's case: a two-night stay in peak season, displayed at -5% and +40%
\* and priced so.
C14_Witness ==
    /\ HotelValid
    /\ hotelDetails.rooms > 0
    /\ CalendarNights = 2
    /\ DisplayDiscount(hotelDetails) = [shown |-> TRUE, discount |-> 5]
    /\ DisplaySeason(hotelDetails) = [shown |-> TRUE, seasonalRate |-> 14]
    /\ hotelReported.cashPrice = ExpHotelCash(14, 95)

-----------------------------------------------------------------------------
(* The brand filter *)

\* The selected property is not among the options the brand filter leaves.
FilteredOut ==
    /\ selectedProperty(hotelDetails).kind = "object"
    /\ selectedProperty(hotelDetails).index \notin filteredProperties(hotelDetails)

\* A step that changes the brand filter leaves the property id, the selected
\* property and the reported cost as they were and calls onCostUpdate not
\* at all.
C15_Step ==
    hotelDetails'.brand # hotelDetails.brand =>
        /\ hotelDetails'.property = hotelDetails.property
        /\ selectedProperty(hotelDetails') = selectedProperty(hotelDetails)
        /\ HotelCost(hotelDetails') = HotelCost(hotelDetails)
        /\ hotelReported' = hotelReported
        /\ hotelDelivered' = <<>>

\* C15: changing only the brand filter leaves the selected property,
\* cashPrice and pointsSavings unchanged and triggers no onCostUpdate, also
\* when the new brand is not the selected property's brand.
C15_BrandChangeIsSilent == [][C15_Step]_vars

\* C15's case: the brand was just set to one the selected property is not
\* of, nothing was delivered, and the priced stay is still the one reported.
C15_Witness ==
    /\ HotelValid
    /\ hotelDetails.rooms > 0
    /\ hotelDetails.brand # ""
    /\ FilteredOut
    /\ hotelDelivered = <<>>
    /\ hotelReported.cashPrice > 0
    /\ hotelReported = HotelCost(hotelDetails)

====
